---------------------------- MODULE Spec2Model ----------------------------
(***************************************************************************)
(* Distortion-robustness evaluation harness (src/code.py).                 *)
(*                                                                         *)
(* The module models the geometry helpers (iou, find_closest_iou,          *)
(* from_yolo_bbox), the distortion generator (distort, distort_image) and  *)
(* the evaluation loop (main) with its two bucket dictionaries d, d_not.   *)
(*                                                                         *)
(* Python floats are modelled by exact rationals: a float result is a      *)
(* record [exc, n, d] holding a reduced fraction n/d with d > 0.  All      *)
(* quantities fed to a division or a comparison are small integers, for    *)
(* which correctly rounded double arithmetic orders values exactly as the  *)
(* rationals do (two distinct fractions with denominators below 2^26       *)
(* differ by more than one ulp), and the fractional inputs are drawn on a  *)
(* grid, so truncation by int() is the truncation of the exact value.      *)
(* An exception raised by a function is the record's exc field.            *)
(***************************************************************************)
EXTENDS Integers, Sequences, FiniteSets, TLC

VARIABLES
    pc,          \* main: "loop" | "done" | "aborted" (an exception left main)
    n,           \* main: directory entries consumed so far by the two for loops
    d,           \* main: correct counts per bucket, line 106
    d_not,       \* main: incorrect counts per bucket, line 107
    _iou,        \* main: local _iou, line 113
    pred,        \* main: local pred, line 117
    cls_dir,     \* main: loop variable cls_dir, line 109
    outcome,     \* main: what the last loop iteration did
    classified,  \* history: number of images whose classify call returned
    raised,      \* history: number of images whose classify call raised
    call,        \* a call of one of the helper functions: its arguments
    ret          \* that call's result, or Pending

mainvars == <<pc, n, d, d_not, _iou, pred, cls_dir, outcome, classified, raised>>
vars == <<pc, n, d, d_not, _iou, pred, cls_dir, outcome, classified, raised, call, ret>>

---------------------------------------------------------------------------
(* Bounds of the model.                                                    *)

\* Rectangle coordinates of the iou inputs range over 0..MaxCoord.
MaxCoord == 2
\* x-coordinates of the find_closest_iou inputs range over 0..ClosestCoord.
ClosestCoord == 2
\* Longest list of contenders passed to find_closest_iou.
MaxCands == 2
\* Largest image width and height handed to distort_image.
MaxSide == 5
\* random.uniform's draws are the multiples of 1/DistDen in its interval.
DistDen == 4
\* cx, cy, nw, nh of from_yolo_bbox are multiples of 1/NormDen.
NormDen == 2
\* Largest image width and height handed to from_yolo_bbox.
YoloSide == 3
\* IoU values handed to the bucket chain are the fractions k/m, m <= MaxDen.
MaxDen == 20
\* Number of directory entries the evaluation loop visits at most.
MaxFiles == 3
\* Largest width and height of an image of the dataset main runs over.
DatasetSide == 3

---------------------------------------------------------------------------
(* Numbers.                                                                *)

Max(a, b) == IF a >= b THEN a ELSE b
Min(a, b) == IF a <= b THEN a ELSE b
Abs(a) == IF a >= 0 THEN a ELSE -a

RECURSIVE Gcd(_, _)
Gcd(a, b) == IF b = 0 THEN a ELSE Gcd(b, a % b)

\* int(p/q) for q > 0: Python's int() truncates toward zero.
TruncDiv(p, q) == IF p >= 0 THEN p \div q ELSE -((-p) \div q)

\* A float holding the value p/q, q # 0.
Float(p, q) ==
    LET g == Gcd(Abs(p), Abs(q))
        s == IF q < 0 THEN -1 ELSE 1
    IN  [exc |-> "none", n |-> (s * p) \div g, d |-> (s * q) \div g]

\* A raised exception in place of a value.
Raise(e) == [exc |-> e, n |-> 0, d |-> 0]

\* Python's  p / float(q) : ZeroDivisionError when q is zero.
PyDiv(p, q) == IF q = 0 THEN Raise("ZeroDivisionError") ELSE Float(p, q)

\* a < b on floats
Less(a, b) == a.n * b.d < b.n * a.d
\* a > b on floats
Greater(a, b) == a.n * b.d > b.n * a.d

---------------------------------------------------------------------------
(* Geometry.                                                               *)

\* bbox.BBox2D((x1, y1, x2, y2), mode=XYXY): x1, y1, x2, y2 read back as given.
BBox2D(x1, y1, x2, y2) == [x1 |-> x1, y1 |-> y1, x2 |-> x2, y2 |-> y2]

\* iou without the guard on the denominator.
iou_unguarded(b1, b2) ==
    LET x_a == Max(b1.x1, b2.x1)
        y_a == Max(b1.y1, b2.y1)
        x_b == Min(b1.x2, b2.x2)
        y_b == Min(b1.y2, b2.y2)
        inter_area == Max(0, x_b - x_a) * Max(0, y_b - y_a)
        box_a_area == (b1.x2 - b1.x1) * (b1.y2 - b1.y1)
        box_b_area == (b2.x2 - b2.x1) * (b2.y2 - b2.y1)
        denominator == box_a_area + box_b_area - inter_area
    IN  PyDiv(inter_area, denominator)

\* iou dividing by the sum of the areas, the intersection not subtracted.
iou_sum(b1, b2) ==
    LET x_a == Max(b1.x1, b2.x1)
        y_a == Max(b1.y1, b2.y1)
        x_b == Min(b1.x2, b2.x2)
        y_b == Min(b1.y2, b2.y2)
        inter_area == Max(0, x_b - x_a) * Max(0, y_b - y_a)
        box_a_area == (b1.x2 - b1.x1) * (b1.y2 - b1.y1)
        box_b_area == (b2.x2 - b2.x1) * (b2.y2 - b2.y1)
        denominator == box_a_area + box_b_area
    IN  IF denominator # 0 THEN PyDiv(inter_area, denominator) ELSE Float(0, 1)

iou(b1, b2) ==
    LET x_a == Max(b1.x1, b2.x1)
        y_a == Max(b1.y1, b2.y1)
        x_b == Min(b1.x2, b2.x2)
        y_b == Min(b1.y2, b2.y2)
        inter_area == Max(0, x_b - x_a) * Max(0, y_b - y_a)
        box_a_area == (b1.x2 - b1.x1) * (b1.y2 - b1.y1)
        box_b_area == (b2.x2 - b2.x1) * (b2.y2 - b2.y1)
        denominator == box_a_area + box_b_area - inter_area
    IN  IF denominator # 0 THEN PyDiv(inter_area, denominator) ELSE Float(0, 1)

\* The result of find_closest_iou: a pair (index, iou) or an exception.
Found(i, v) == [exc |-> "none", i |-> i, iou |-> v]
NotFound(e) == [exc |-> e, i |-> 0, iou |-> Raise(e)]

\* The for loop of find_closest_iou from position idx of contenders[1:] on
\* (idx counts from 0; contenders itself is a 1-based sequence here).
RECURSIVE closest_loop(_, _, _, _, _)
closest_loop(b1, contenders, idx, last_i, last_iou) ==
    IF idx + 2 > Len(contenders) THEN Found(last_i, last_iou)
    ELSE LET new_iou == iou(b1, contenders[idx + 2])
         IN  IF Greater(new_iou, last_iou)
             THEN closest_loop(b1, contenders, idx + 1, idx + 1, new_iou)
             ELSE closest_loop(b1, contenders, idx + 1, last_i, last_iou)

\* The loop updating on >= instead of >.
RECURSIVE closest_loop_last(_, _, _, _, _)
closest_loop_last(b1, contenders, idx, last_i, last_iou) ==
    IF idx + 2 > Len(contenders) THEN Found(last_i, last_iou)
    ELSE LET new_iou == iou(b1, contenders[idx + 2])
         IN  IF ~Less(new_iou, last_iou)
             THEN closest_loop_last(b1, contenders, idx + 1, idx + 1, new_iou)
             ELSE closest_loop_last(b1, contenders, idx + 1, last_i, last_iou)

\* find_closest_iou breaking ties toward the last contender.
find_closest_iou_last(b1, contenders) ==
    IF Len(contenders) = 0 THEN NotFound("IndexError")
    ELSE closest_loop_last(b1, contenders, 0, 0, iou(b1, contenders[1]))

find_closest_iou(b1, contenders) ==
    IF Len(contenders) = 0 THEN NotFound("IndexError")   \* contenders[0]
    ELSE closest_loop(b1, contenders, 0, 0, iou(b1, contenders[1]))

\* from_yolo_bbox on cx = cxn/NormDen, cy = cyn/NormDen, nw = nwn/NormDen,
\* nh = nhn/NormDen:  (cx - nw/2) * w  =  (2*cxn - nwn) * w / (2*NormDen).
from_yolo_bbox(cxn, cyn, nwn, nhn, w, h) ==
    LET left  == Max(0, TruncDiv((2 * cxn - nwn) * w, 2 * NormDen))
        upper == Max(0, TruncDiv((2 * cyn - nhn) * h, 2 * NormDen))
        right == Min(w, TruncDiv((2 * cxn + nwn) * w, 2 * NormDen))
        lower == Min(h, TruncDiv((2 * cyn + nhn) * h, 2 * NormDen))
    IN  BBox2D(left, upper, right, lower)

---------------------------------------------------------------------------
(* Distortion.                                                             *)

\* The multiplier of lines 84-85, 0.6 = DistortNum / DistortDenom.
DistortNum == 3
DistortDenom == 5

\* The draws random.uniform(0, 0.6 * w) can return: k/DistDen, as k.
Uniform(w) == {k \in 0..(w * DistDen) :
                  DistortDenom * k <= DistortNum * w * DistDen}

\* The draws of a uniform over [0, 1.6 * w].
Uniform_wide(w) == {k \in 0..(2 * w * DistDen) :
                       DistortDenom * k <= (DistortNum + DistortDenom) * w * DistDen}

\* distort with the draws made: kx/DistDen and ky/DistDen are the values of
\* lines 86-87, sx and sy the signs of lines 88-89.
distort(x1, y1, x2, y2, kx, sx, ky, sy) ==
    LET w == x2 - x1
        h == y2 - y1
        x1_distorted == TruncDiv(Max(0, x1 * DistDen + sx * kx), DistDen)
        y1_distorted == TruncDiv(Max(0, y1 * DistDen + sy * ky), DistDen)
        x2_distorted == TruncDiv(Min(w * DistDen, x2 * DistDen + sx * kx), DistDen)
        y2_distorted == TruncDiv(Min(h * DistDen, y2 * DistDen + sy * ky), DistDen)
    IN  <<x1_distorted, y1_distorted, x2_distorted, y2_distorted>>

\* img.crop((x1, y1, x2, y2)): the size of the image it returns.
crop_size(x1, y1, x2, y2) == [w |-> x2 - x1, h |-> y2 - y1]

\* distort_image on an image of size (w, h), with distort's draws.
distort_image(w, h, kx, sx, ky, sy) ==
    LET old_bbox == BBox2D(0, 0, w - 1, h - 1)
        t == distort(0, 0, w - 1, h - 1, kx, sx, ky, sy)
        new_bbox == BBox2D(t[1], t[2], t[3], t[4])
    IN  [iou |-> iou(old_bbox, new_bbox), box |-> new_bbox,
         size |-> crop_size(t[1], t[2], t[3], t[4])]

\* distort_image drawing from [0, 1.6 * w] instead of [0, 0.6 * w].
Draws_wide(w, h) ==
    [kx : Uniform_wide(w - 1), sx : {-1, 1}, ky : Uniform_wide(h - 1), sy : {-1, 1}]

\* The draws distort can make for the full-image rectangle of a (w, h) image.
Draws(w, h) == [kx : Uniform(w - 1), sx : {-1, 1}, ky : Uniform(h - 1), sy : {-1, 1}]

---------------------------------------------------------------------------
(* The bucket dictionaries of main.                                        *)

Labels == {"cat", "dog"}
Buckets == 2..10
Zero == [k \in Buckets |-> 0]

\* Python's bool added to an int.
Bool(b) == IF b THEN 1 ELSE 0

\* d[k] += pred == cls_dir ; d_not[k] += 1, whatever the prediction.
tally_always_incorrect(dd, nn, k, p, c) ==
    <<[dd EXCEPT ![k] = @ + Bool(p = c)], [nn EXCEPT ![k] = @ + 1]>>

\* d[k] += pred == cls_dir ; d_not[k] += pred != cls_dir
tally(dd, nn, k, p, c) ==
    <<[dd EXCEPT ![k] = @ + Bool(p = c)], [nn EXCEPT ![k] = @ + Bool(p # c)]>>

\* The chain comparing with <= instead of <.
bucket_update_le(dd, nn, v, p, c) ==
    IF ~Greater(v, Float(2, 10)) THEN tally(dd, nn, 2, p, c)
    ELSE IF ~Greater(v, Float(3, 10)) THEN tally(dd, nn, 3, p, c)
    ELSE IF ~Greater(v, Float(4, 10)) THEN tally(dd, nn, 4, p, c)
    ELSE IF ~Greater(v, Float(5, 10)) THEN tally(dd, nn, 5, p, c)
    ELSE IF ~Greater(v, Float(6, 10)) THEN tally(dd, nn, 6, p, c)
    ELSE IF ~Greater(v, Float(7, 10)) THEN tally(dd, nn, 7, p, c)
    ELSE IF ~Greater(v, Float(8, 10)) THEN tally(dd, nn, 8, p, c)
    ELSE IF ~Greater(v, Float(9, 10)) THEN tally(dd, nn, 9, p, c)
    ELSE tally(dd, nn, 10, p, c)

\* The if / elif chain of lines 123-149 on the dictionaries dd (d), nn (d_not),
\* v (_iou), p (pred), c (cls_dir): the dictionaries after it.
bucket_update(dd, nn, v, p, c) ==
    IF Less(v, Float(2, 10)) THEN tally(dd, nn, 2, p, c)
    ELSE IF Less(v, Float(3, 10)) THEN tally(dd, nn, 3, p, c)
    ELSE IF Less(v, Float(4, 10)) THEN tally(dd, nn, 4, p, c)
    ELSE IF Less(v, Float(5, 10)) THEN tally(dd, nn, 5, p, c)
    ELSE IF Less(v, Float(6, 10)) THEN tally(dd, nn, 6, p, c)
    ELSE IF Less(v, Float(7, 10)) THEN tally(dd, nn, 7, p, c)
    ELSE IF Less(v, Float(8, 10)) THEN tally(dd, nn, 8, p, c)
    ELSE IF Less(v, Float(9, 10)) THEN tally(dd, nn, 9, p, c)
    ELSE tally(dd, nn, 10, p, c)

SumCounts(f) == f[2] + f[3] + f[4] + f[5] + f[6] + f[7] + f[8] + f[9] + f[10]

---------------------------------------------------------------------------
(* The evaluation loop, main.  One action is one iteration of the nested   *)
(* for loops (one directory entry), by what happens to that entry.         *)

\* A local of main before its first assignment.
Unbound == "unbound"
UnboundFloat == [exc |-> "unbound", n |-> 0, d |-> 0]

\* The values distort_image can return as _iou for the images of the dataset.
DistortIous ==
    UNION {{distort_image(w, h, r.kx, r.sx, r.ky, r.sy).iou : r \in Draws(w, h)} :
           <<w, h>> \in (1..DatasetSide) \X (1..DatasetSide)}

Idle == [state |-> "idle"]
Pending == [state |-> "pending"]
Returned(v) == [state |-> "returned", val |-> v]

MainInit ==
    /\ pc = "loop"
    /\ n = 0
    /\ d = Zero
    /\ d_not = Zero
    /\ _iou = UnboundFloat
    /\ pred = Unbound
    /\ cls_dir = Unbound
    /\ outcome = "none"
    /\ classified = 0
    /\ raised = 0

Init == MainInit /\ call = Idle /\ ret = Idle

\* file does not end with ".png": the body of the if is skipped.
SkipFile ==
    /\ pc = "loop" /\ n < MaxFiles
    /\ \E c \in Labels : cls_dir' = c
    /\ n' = n + 1
    /\ outcome' = "not_png"
    /\ UNCHANGED <<pc, d, d_not, _iou, pred, classified, raised, call, ret>>

\* Image.open (or the load inside img.crop) raises: lines 112-113 stand outside
\* the try, so the exception leaves main.
DecodeFails ==
    /\ pc = "loop" /\ n < MaxFiles
    /\ \E c \in Labels : cls_dir' = c
    /\ n' = n + 1
    /\ pc' = "aborted"
    /\ outcome' = "decode_failed"
    /\ UNCHANGED <<d, d_not, _iou, pred, classified, raised, call, ret>>

\* classifier.classify raises and the failure is tallied as a wrong prediction.
ClassifyRaises_counted ==
    /\ pc = "loop" /\ n < MaxFiles
    /\ \E c \in Labels, v \in DistortIous :
          /\ cls_dir' = c
          /\ _iou' = v
          /\ d' = bucket_update(d, d_not, v, "none", c)[1]
          /\ d_not' = bucket_update(d, d_not, v, "none", c)[2]
    /\ n' = n + 1
    /\ raised' = raised + 1
    /\ outcome' = "classify_raised"
    /\ UNCHANGED <<pc, pred, classified, call, ret>>

\* classifier.classify raises: the except clause prints and continues.
ClassifyRaises ==
    /\ pc = "loop" /\ n < MaxFiles
    /\ \E c \in Labels, v \in DistortIous :
          /\ cls_dir' = c
          /\ _iou' = v
    /\ n' = n + 1
    /\ raised' = raised + 1
    /\ outcome' = "classify_raised"
    /\ UNCHANGED <<pc, d, d_not, pred, classified, call, ret>>

\* classifier.classify returns a prediction: the bucket chain runs.
ClassifyReturns ==
    /\ pc = "loop" /\ n < MaxFiles
    /\ \E c \in Labels, v \in DistortIous, p \in Labels :
          /\ cls_dir' = c
          /\ _iou' = v
          /\ pred' = p
          /\ d' = bucket_update(d, d_not, v, p, c)[1]
          /\ d_not' = bucket_update(d, d_not, v, p, c)[2]
    /\ n' = n + 1
    /\ classified' = classified + 1
    /\ outcome' = "classified"
    /\ UNCHANGED <<pc, raised, call, ret>>

\* The listing is exhausted: print(d), print(d_not).
Report ==
    /\ pc = "loop"
    /\ pc' = "done"
    /\ UNCHANGED <<n, d, d_not, _iou, pred, cls_dir, outcome, classified, raised, call, ret>>

Next == SkipFile \/ DecodeFails \/ ClassifyRaises \/ ClassifyReturns \/ Report

Spec == Init /\ [][Next]_vars

\* main is one sequential loop: it takes its next step whenever it has one.
FairSpec == Spec /\ WF_vars(Next)

---------------------------------------------------------------------------
(* The helper functions, each applied to inputs drawn from bounded sets.   *)

\* Rectangles with x1 <= x2 and y1 <= y2, x in 0..mx and y in 0..my.
Rects(mx, my) ==
    {b \in [x1 : 0..mx, y1 : 0..my, x2 : 0..mx, y2 : 0..my] : b.x1 <= b.x2 /\ b.y1 <= b.y2}

\* The lists of at most m elements of S.
Lists(S, m) == UNION {[1..k -> S] : k \in 0..m}

LibStep(fn, v) ==
    /\ call.fn = fn
    /\ ret = Pending
    /\ ret' = Returned(v)
    /\ UNCHANGED <<pc, n, d, d_not, _iou, pred, cls_dir, outcome, classified, raised, call>>

InitIou ==
    /\ MainInit
    /\ call \in [fn : {"iou"}, b1 : Rects(MaxCoord, MaxCoord), b2 : Rects(MaxCoord, MaxCoord)]
    /\ ret = Pending
ApplyIou == LibStep("iou", iou(call.b1, call.b2))
SpecIou == InitIou /\ [][ApplyIou]_vars

InitClosest ==
    /\ MainInit
    /\ call \in [fn : {"find_closest_iou"}, b1 : Rects(ClosestCoord, 1),
                 contenders : Lists(Rects(ClosestCoord, 1), MaxCands)]
    /\ ret = Pending
ApplyClosest == LibStep("find_closest_iou", find_closest_iou(call.b1, call.contenders))
SpecClosest == InitClosest /\ [][ApplyClosest]_vars

InitYolo ==
    /\ MainInit
    /\ call \in [fn : {"from_yolo_bbox"},
                 cxn : (-NormDen)..(2 * NormDen), cyn : (-NormDen)..(2 * NormDen),
                 nwn : 0..(2 * NormDen), nhn : 0..(2 * NormDen),
                 w : 0..YoloSide, h : 0..YoloSide]
    /\ ret = Pending
ApplyYolo ==
    LibStep("from_yolo_bbox",
            from_yolo_bbox(call.cxn, call.cyn, call.nwn, call.nhn, call.w, call.h))
SpecYolo == InitYolo /\ [][ApplyYolo]_vars

InitDistort ==
    /\ MainInit
    /\ \E w \in 1..MaxSide, h \in 1..MaxSide :
          \E r \in Draws(w, h) : call = [fn |-> "distort_image", w |-> w, h |-> h, r |-> r]
    /\ ret = Pending
ApplyDistort ==
    LibStep("distort_image",
            distort_image(call.w, call.h, call.r.kx, call.r.sx, call.r.ky, call.r.sy))
SpecDistort == InitDistort /\ [][ApplyDistort]_vars

\* The fractions k/m in [0, 1] with m <= MaxDen.
UnitFractions == {Float(k, m) : <<k, m>> \in {x \in (0..MaxDen) \X (1..MaxDen) : x[1] <= x[2]}}

\* The bucket chain of main on fresh dictionaries.
InitBucket ==
    /\ MainInit
    /\ call \in [fn : {"bucket_update"}, v : UnitFractions, pred : Labels, cls_dir : Labels]
    /\ ret = Pending
ApplyBucket ==
    LibStep("bucket_update", bucket_update(Zero, Zero, call.v, call.pred, call.cls_dir))
SpecBucket == InitBucket /\ [][ApplyBucket]_vars

---------------------------------------------------------------------------
(* The claims.                                                             *)

Done == ret.state = "returned"
Area(b) == (b.x2 - b.x1) * (b.y2 - b.y1)

\* C1: the correct and incorrect counters of the nine buckets sum to the number
\* of images whose classify call returned; such an image adds exactly 1 to
\* exactly one counter of one bucket, the correct one when pred equals the
\* directory label and the incorrect one otherwise; any other step of the loop
\* leaves every counter as it was.
C1_OneCounterPerClassifiedImage ==
    /\ [](SumCounts(d) + SumCounts(d_not) = classified)
    /\ [][classified' = classified + 1 =>
            \E k \in Buckets :
               /\ \A j \in Buckets \ {k} : d'[j] = d[j] /\ d_not'[j] = d_not[j]
               /\ IF pred' = cls_dir'
                  THEN d'[k] = d[k] + 1 /\ d_not'[k] = d_not[k]
                  ELSE d'[k] = d[k] /\ d_not'[k] = d_not[k] + 1]_vars
    /\ [][classified' = classified => d' = d /\ d_not' = d_not]_vars

C1_Witness ==
    /\ pc = "done"
    /\ classified = 2 /\ raised = 1
    /\ SumCounts(d) = 1 /\ SumCounts(d_not) = 1

\* C2: every iou value in [0, 1] is tallied in exactly one bucket: bucket 2 below
\* 0.2, bucket k+1 for k/10 <= iou < (k+1)/10 (k = 2..8), bucket 10 from 0.9 on;
\* a value on a boundary goes to the upper bucket.
C2_BucketTotalExclusive ==
    Done =>
      LET v == call.v
          touched == {k \in Buckets : ret.val[1][k] + ret.val[2][k] # 0}
      IN  /\ Cardinality(touched) = 1
          /\ \A k \in touched :
                /\ ret.val[1][k] + ret.val[2][k] = 1
                /\ k = 2 => 10 * v.n < 2 * v.d
                /\ k \in 3..9 => (k - 1) * v.d <= 10 * v.n /\ 10 * v.n < k * v.d
                /\ k = 10 => 9 * v.d <= 10 * v.n

C2_Witness ==
    /\ Done
    /\ call.v = Float(3, 10)
    /\ ret.val[1][4] + ret.val[2][4] = 1

\* C3: a classify call that raises changes no counter and the loop goes on to
\* the next entry; the run ends, and only an image that fails to decode (C4), never
\* a classification failure, keeps it from the final report; when no classify
\* call returned, the reported counters are all zero.
C3_ClassifyFailureSkipped ==
    /\ [][raised' = raised + 1 =>
            d' = d /\ d_not' = d_not /\ pc' = "loop" /\ n' = n + 1]_vars
    /\ [](pc = "aborted" => outcome = "decode_failed")
    /\ [](pc = "done" /\ classified = 0 => SumCounts(d) + SumCounts(d_not) = 0)
    /\ <>(pc = "done" \/ outcome = "decode_failed")

C3_Witness ==
    /\ pc = "done"
    /\ raised = MaxFiles /\ classified = 0
    /\ SumCounts(d) + SumCounts(d_not) = 0

\* C4: an image that fails to decode is skipped and the loop goes on: the run is
\* never aborted by it.
C4_DecodeFailureAbsorbed ==
    outcome = "decode_failed" => pc = "loop"

\* C5: on a non-empty list find_closest_iou returns (i, v) with v the iou of
\* contender i, no contender has a larger iou, every contender before i has a
\* smaller one, and a single contender gives index 0.
C5_ClosestIsFirstMaximum ==
    Done /\ Len(call.contenders) > 0 =>
      LET r == ret.val
          c == call.contenders
      IN  /\ r.exc = "none"
          /\ r.i \in 0..(Len(c) - 1)
          /\ r.iou = iou(call.b1, c[r.i + 1])
          /\ \A j \in 1..Len(c) : ~Greater(iou(call.b1, c[j]), r.iou)
          /\ \A j \in 1..r.i : Less(iou(call.b1, c[j]), r.iou)
          /\ Len(c) = 1 => r.i = 0

C5_Witness ==
    /\ Done
    /\ Len(call.contenders) = 2
    /\ call.contenders[1] # call.contenders[2]
    /\ iou(call.b1, call.contenders[1]) = iou(call.b1, call.contenders[2])
    /\ ret.val.iou.n > 0
    /\ ret.val.i = 0

\* C6: with an empty list of contenders find_closest_iou fails with the
\* dedicated EmptyInputError of an explicit precondition check.
C6_EmptyRaisesEmptyInputError ==
    Done /\ Len(call.contenders) = 0 => ret.val.exc = "EmptyInputError"

\* C7: iou(a, b) = iou(b, a), 0 <= iou(a, b) <= 1, and iou(a, a) = 1 when a has
\* a positive area.
C7_IouSymmetricInUnit ==
    Done =>
      LET v == ret.val
      IN  /\ v.exc = "none"
          /\ v = iou(call.b2, call.b1)
          /\ 0 <= v.n /\ v.n <= v.d
          /\ call.b1 = call.b2 /\ Area(call.b1) > 0 => v.n = 1 /\ v.d = 1

C7_Witness ==
    /\ Done
    /\ call.b1 # call.b2
    /\ 0 < ret.val.n /\ ret.val.n < ret.val.d

\* C8: when either rectangle has zero area, the other one too or not, iou returns
\* 0 and raises nothing: no division by zero.
C8_ZeroAreaGivesZero ==
    Done /\ (Area(call.b1) = 0 \/ Area(call.b2) = 0) =>
      ret.val.exc = "none" /\ ret.val.n = 0

C8_Witness ==
    /\ Done
    /\ Area(call.b1) = 0 /\ Area(call.b2) = 0
    /\ ret.val = Float(0, 1)

\* C9: the rectangle from_yolo_bbox returns lies in the frame, 0 <= x1 <= x2 <= w
\* and 0 <= y1 <= y2 <= h, also for a box partly or wholly outside the frame.
C9_YoloBoxInFrame ==
    Done =>
      LET b == ret.val
      IN  /\ 0 <= b.x1 /\ b.x1 <= b.x2 /\ b.x2 <= call.w
          /\ 0 <= b.y1 /\ b.y1 <= b.y2 /\ b.y2 <= call.h

\* C10: the distorted rectangle satisfies 0 <= x1 <= x2 <= width and
\* 0 <= y1 <= y2 <= height, the crop is no larger than the image and not
\* negative, and the returned iou lies in [0, 1].
C10_DistortedBoxInImage ==
    Done =>
      LET b == ret.val.box
          v == ret.val.iou
          sz == ret.val.size
      IN  /\ 0 <= b.x1 /\ b.x1 <= b.x2 /\ b.x2 <= call.w
          /\ 0 <= b.y1 /\ b.y1 <= b.y2 /\ b.y2 <= call.h
          /\ 0 <= sz.w /\ sz.w <= call.w
          /\ 0 <= sz.h /\ sz.h <= call.h
          /\ v.exc = "none" /\ 0 <= v.n /\ v.n <= v.d

C10_Witness ==
    /\ Done
    /\ call.w = MaxSide /\ call.h = MaxSide - 1
    /\ ret.val.box.x1 > 0
    /\ ret.val.box.y2 < call.h - 1
    /\ 0 < ret.val.iou.n /\ ret.val.iou.n < ret.val.iou.d

=============================================================================
